---- MODULE Spec2Model ----
(***************************************************************************)
(* A model of libpe's core (lib/libpe/pe.c): the mapping layer             *)
(* (pe_load_file_ext, pe_can_read), the structural parser (pe_parse), the  *)
(* address translator (pe_rva2section, pe_rva2ofs, pe_ofs2rva) and the     *)
(* teardown (pe_unload).                                                   *)
(*                                                                         *)
(* Pointers are integer addresses.  The build modelled is LP64: uintptr_t  *)
(* and size_t are 64 bits wide, and every pointer sum the parser forms is  *)
(* map base + a 32-bit offset + a structure size, far below 2^64, so       *)
(* pointer arithmetic never wraps.  Heap blocks are small integers.        *)
(***************************************************************************)
EXTENDS Integers, Sequences, FiniteSets, TLC

\* ------------------------------------------------------------- bounds
\* pe_parse calls per behaviour.
MaxParse == 2
\* pe_unload calls per behaviour.
MaxUnload == 2
\* Sections of a section table handed to the address translator.
MaxSec == 2
\* The address the kernel chooses for the mapping (mmap(NULL, ...)).
MapBase == 4096

\* ---------------------------------------------------- program constants
NULL == 0
\* (void *) -1
MAP_FAILED == -1
\* 0x5A4D, "MZ"
MAGIC_MZ == 23117
\* 0x00004550, "PE\0\0"
SIGNATURE_PE == 17744
\* 0x0000454E, "NE\0\0"
SIGNATURE_NE == 17742
\* 0x107, 0x10b, 0x20b
MAGIC_ROM == 263
MAGIC_PE32 == 267
MAGIC_PE64 == 523
MAX_DIRECTORIES == 16
MAX_SECTIONS == 96
\* sizeof of the on-disk structures (PE/COFF layout, packed).
SIZEOF_DOS_HEADER == 64
SIZEOF_SIGNATURE == 4
SIZEOF_COFF_HEADER == 20
SIZEOF_OPT_TYPE == 2
SIZEOF_OPTIONAL_HEADER_32 == 96
SIZEOF_OPTIONAL_HEADER_64 == 112
SIZEOF_DATA_DIRECTORY == 8
SIZEOF_SECTION_HEADER == 40
\* offsetof of the fields pe_parse reads.
OFS_e_lfanew == 60
OFS_NumberOfSections == 2
OFS_SizeOfOptionalHeader == 16
OFS_AddressOfEntryPoint == 16
OFS_ImageBase_32 == 28
OFS_ImageBase_64 == 24
OFS_NumberOfRvaAndSizes_32 == 92
OFS_NumberOfRvaAndSizes_64 == 108
\* LIBPE_OPT_NOCLOSE_FD
OPT_NOCLOSE_FD == 2
\* The page size of the mapping.
PAGE_SIZE == 4096
\* 2^32 in the unit of the address translator's quantities (4096 bytes, see
\* the translator below): the modulus of uint32_t arithmetic.
UINT32_MOD == 1048576

\* ------------------------------------------------------------ the file
\* A file is [size, data]: data maps the offsets of its non-zero bytes to
\* them, every other byte below size is 0.
LEByte(v, i) ==
    IF i = 0 THEN v % 256
    ELSE IF i = 1 THEN (v \div 256) % 256
    ELSE IF i = 2 THEN (v \div 65536) % 256
    ELSE (v \div 16777216) % 256

\* d with the n-byte little-endian encoding of v written at offset off.
Put(d, off, n, v) ==
    [o \in (DOMAIN d) \cup (off .. off + n - 1) |->
        IF o \in off .. off + n - 1 THEN LEByte(v, o - off) ELSE d[o]]

\* The first size bytes of d, as a file.
MkFile(d, size) ==
    LET keep == {o \in DOMAIN d : o < size /\ d[o] # 0}
    IN [size |-> size, data |-> [o \in keep |-> d[o]]]

EmptyData == [o \in {} |-> 0]

\* An image laid out as the PE format lays it out: DOS header at 0, the
\* signature at lfanew, the COFF header, the optional header chosen by
\* optmagic.  Later fields overwrite earlier ones where lfanew makes them
\* overlap; e_magic and e_lfanew are written last.
Image(magic, lfanew, sig, nsec, optsize, optmagic, ndir) ==
    LET coff == lfanew + SIZEOF_SIGNATURE
        opt == coff + SIZEOF_COFF_HEADER
        d1 == Put(EmptyData, lfanew, 4, sig)
        d2 == Put(d1, coff + OFS_NumberOfSections, 2, nsec)
        d3 == Put(d2, coff + OFS_SizeOfOptionalHeader, 2, optsize)
        d4 == Put(d3, opt, 2, optmagic)
        d5 == Put(d4, opt + OFS_AddressOfEntryPoint, 4, 4096)
        d6 == IF optmagic = MAGIC_PE64
              THEN Put(Put(d5, opt + OFS_ImageBase_64, 4, 4194304),
                       opt + OFS_NumberOfRvaAndSizes_64, 4, ndir)
              ELSE Put(Put(d5, opt + OFS_ImageBase_32, 4, 4194304),
                       opt + OFS_NumberOfRvaAndSizes_32, 4, ndir)
        d7 == Put(d6, 0, 2, magic)
    IN Put(d7, OFS_e_lfanew, 4, lfanew)

\* ------------------------------------------------------------ the state
VARIABLES
    file,     \* the file the path names: [size, data]
    ctx,      \* the pe_ctx_t
    heap,     \* heap block -> [st: "unalloc" | "live" | "freed", val: contents]
    os,       \* [fd, map, stream, tail]: descriptor, mapping, FILE stream,
              \* and the byte the mapped page holds past the end of the file
    faults,   \* ghost: misuses of the allocator and the OS that have happened
    last,     \* ghost: [op, ret, options] of the last library call
    hist,     \* ghost: calls so far: [loads, parses, loadret, parseok], and the
              \* pe_unload calls since the last load: [unloads, firstunload]
    log,      \* ghost: the bounds checks and reads of the last pe_parse, in order
    sect,     \* the section headers ctx.pe.sections[i] point at (translator)
    q         \* the last address-translator query and its results

vars == <<file, ctx, heap, os, faults, last, hist, log, sect, q>>

\* Heap blocks: the strdup'ed path, the pointer tables of the k-th pe_parse,
\* the FILE of fdopen, and one payload per cache slot.
PathBlock == 1
StreamBlock == 2
DirBlock(k) == 10 + k
SecBlock(k) == 20 + k
CacheSlots ==
    <<"imports", "exports", "hash_headers", "hash_sections", "hash_file", "resources">>
CacheBlock(i) == 30 + i
Blocks ==
    {PathBlock} \cup {DirBlock(k) : k \in 1 .. MaxParse}
        \cup {SecBlock(k) : k \in 1 .. MaxParse}
        \cup {CacheBlock(i) : i \in 1 .. Len(CacheSlots)}

ZeroCache == [s \in {CacheSlots[i] : i \in 1 .. Len(CacheSlots)} |-> NULL]

ZeroPe ==
    [dos_hdr |-> NULL, signature |-> 0, coff_hdr |-> NULL,
     optional_hdr_ptr |-> NULL,
     optional_hdr |-> [type |-> 0, length |-> 0, opt32 |-> NULL, opt64 |-> NULL],
     num_directories |-> 0, directories_ptr |-> NULL, directories |-> NULL,
     num_sections |-> 0, sections_ptr |-> NULL, sections |-> NULL,
     entrypoint |-> 0, imagebase |-> 0]

\* memset(ctx, 0, sizeof(pe_ctx_t))
ZeroCtx ==
    [path |-> NULL, map_addr |-> NULL, map_size |-> 0, map_end |-> 0,
     stream |-> NULL, pe |-> ZeroPe, cached_data |-> ZeroCache]

ZeroHeap == [b \in Blocks |-> [st |-> "unalloc", val |-> <<>>]]

NoQuery == [op |-> "none", arg |-> 0, ofs |-> 0, back |-> 0, sec |-> 0]

\* ------------------------------------------------------- mapping layer
\* The byte at address a of the mapping: the file's byte inside the file, the
\* page's tail past it (the unchecked reads of pe_parse stay inside the first
\* page, which is mapped whenever the file is not empty).
Mem(a) ==
    LET o == a - ctx.map_addr
    IN IF o >= 0 /\ o < file.size
       THEN (IF o \in DOMAIN file.data THEN file.data[o] ELSE 0)
       ELSE os.tail

\* An n-byte little-endian load from address a.
RECURSIVE ReadLE(_, _)
ReadLE(a, n) ==
    IF n = 0 THEN 0 ELSE Mem(a) + 256 * ReadLE(a + 1, n - 1)

\* pe_can_read with the last byte of the mapping left out.
pe_can_read_strict(c, ptr, size) ==
    LET start == ptr
        end == start + size
    IN start >= c.map_addr /\ end < c.map_end

pe_can_read(c, ptr, size) ==
    LET start == ptr
        end == start + size
    IN start >= c.map_addr /\ end <= c.map_end

LIBPE_PTR_ADD(p, o) == p + o

pe_is_loaded(c) == c.map_addr # NULL /\ c.map_size > 0

\* -------------------------------------------------- structural parser
\* Entries of the parse log.
Rd(p, n) == [k |-> "read", p |-> p, n |-> n, ok |-> TRUE]
Ck(p, n, ok) == [k |-> "check", p |-> p, n |-> n, ok |-> ok]

\* What one run of pe_parse leaves: the context, the return value, the log,
\* and the pointer tables it allocated and filled (<<>>: none).
Out(c, ret, l, dirs, secs) ==
    [ctx |-> c, ret |-> ret, log |-> l, dirs |-> dirs, secs |-> secs]

\* The table pe_parse fills: n pointers, the i-th at first + i * stride.
PtrTable(first, n, stride) == [i \in 1 .. n |-> LIBPE_PTR_ADD(first, (i - 1) * stride)]

\* pe_parse from the directory count check on: c holds the headers' fields,
\* sigp is signature_ptr, mdir and msec are what the two malloc calls return.
pe_parse_tables(c, sigp, l, mdir, msec) ==
    IF c.pe.num_directories > MAX_DIRECTORIES
    THEN Out(c, "LIBPE_E_TOO_MANY_DIRECTORIES", l, <<>>, <<>>)
    ELSE IF c.pe.num_sections > MAX_SECTIONS
    THEN Out(c, "LIBPE_E_TOO_MANY_SECTIONS", l, <<>>, <<>>)
    ELSE
    LET dptr == LIBPE_PTR_ADD(c.pe.optional_hdr_ptr, c.pe.optional_hdr.length)
        SizeOfOptionalHeader == ReadLE(c.pe.coff_hdr + OFS_SizeOfOptionalHeader, 2)
        l1 == Append(l, Rd(c.pe.coff_hdr + OFS_SizeOfOptionalHeader, 2))
        sections_offset ==
            SIZEOF_SIGNATURE + SIZEOF_COFF_HEADER + SizeOfOptionalHeader
        sptr == LIBPE_PTR_ADD(sigp, sections_offset)
        c1 == [c EXCEPT !.pe.directories_ptr = dptr, !.pe.sections_ptr = sptr]
        dirs == PtrTable(dptr, c.pe.num_directories, SIZEOF_DATA_DIRECTORY)
        secs == PtrTable(sptr, c.pe.num_sections, SIZEOF_SECTION_HEADER)
        c2 == IF c.pe.num_directories > 0
              THEN [c1 EXCEPT !.pe.directories = mdir]
              ELSE [c1 EXCEPT !.pe.directories_ptr = NULL]
    IN IF c.pe.num_directories > 0 /\ mdir = NULL
       THEN Out(c2, "LIBPE_E_ALLOCATION_FAILURE", l1, <<>>, <<>>)
       ELSE
       LET c3 == IF c.pe.num_sections > 0
                 THEN [c2 EXCEPT !.pe.sections = msec]
                 ELSE [c2 EXCEPT !.pe.sections_ptr = NULL]
       IN IF c.pe.num_sections > 0 /\ msec = NULL
          THEN Out(c3, "LIBPE_E_ALLOCATION_FAILURE", l1, dirs, <<>>)
          ELSE Out(c3, "LIBPE_E_OK", l1, dirs, secs)

\* pe_parse from the optional header on.
pe_parse_optional(c, sigp, l, mdir, msec) ==
    LET opt == LIBPE_PTR_ADD(c.pe.coff_hdr, SIZEOF_COFF_HEADER)
        c1 == [c EXCEPT !.pe.optional_hdr_ptr = opt]
        okt == pe_can_read(c1, opt, SIZEOF_OPT_TYPE)
        l1 == Append(l, Ck(opt, SIZEOF_OPT_TYPE, okt))
    IN IF ~okt THEN Out(c1, "LIBPE_E_MISSING_OPTIONAL_HEADER", l1, <<>>, <<>>)
       ELSE
       LET type == ReadLE(opt, SIZEOF_OPT_TYPE)
           c2 == [c1 EXCEPT !.pe.optional_hdr.type = type]
           l2 == Append(l1, Rd(opt, SIZEOF_OPT_TYPE))
       IN IF type = MAGIC_PE32
          THEN LET ok == pe_can_read(c2, opt, SIZEOF_OPTIONAL_HEADER_32)
                   l3 == Append(l2, Ck(opt, SIZEOF_OPTIONAL_HEADER_32, ok))
               IN IF ~ok
                  THEN Out(c2, "LIBPE_E_MISSING_OPTIONAL_HEADER", l3, <<>>, <<>>)
                  ELSE pe_parse_tables(
                      [c2 EXCEPT
                          !.pe.optional_hdr.opt32 = opt,
                          !.pe.optional_hdr.length = SIZEOF_OPTIONAL_HEADER_32,
                          !.pe.num_directories =
                              ReadLE(opt + OFS_NumberOfRvaAndSizes_32, 4),
                          !.pe.entrypoint = ReadLE(opt + OFS_AddressOfEntryPoint, 4),
                          !.pe.imagebase = ReadLE(opt + OFS_ImageBase_32, 4)],
                      sigp,
                      l3 \o <<Rd(opt + OFS_NumberOfRvaAndSizes_32, 4),
                              Rd(opt + OFS_AddressOfEntryPoint, 4),
                              Rd(opt + OFS_ImageBase_32, 4)>>,
                      mdir, msec)
          ELSE IF type = MAGIC_PE64
          THEN LET ok == pe_can_read(c2, opt, SIZEOF_OPTIONAL_HEADER_64)
                   l3 == Append(l2, Ck(opt, SIZEOF_OPTIONAL_HEADER_64, ok))
               IN IF ~ok
                  THEN Out(c2, "LIBPE_E_MISSING_OPTIONAL_HEADER", l3, <<>>, <<>>)
                  ELSE pe_parse_tables(
                      [c2 EXCEPT
                          !.pe.optional_hdr.opt64 = opt,
                          !.pe.optional_hdr.length = SIZEOF_OPTIONAL_HEADER_64,
                          !.pe.num_directories =
                              ReadLE(opt + OFS_NumberOfRvaAndSizes_64, 4),
                          !.pe.entrypoint = ReadLE(opt + OFS_AddressOfEntryPoint, 4),
                          !.pe.imagebase = ReadLE(opt + OFS_ImageBase_64, 8)],
                      sigp,
                      l3 \o <<Rd(opt + OFS_NumberOfRvaAndSizes_64, 4),
                              Rd(opt + OFS_AddressOfEntryPoint, 4),
                              Rd(opt + OFS_ImageBase_64, 8)>>,
                      mdir, msec)
          ELSE Out(c2, "LIBPE_E_UNSUPPORTED_IMAGE", l2, <<>>, <<>>)

\* One run of pe_parse on context c.
pe_parse(c, mdir, msec) ==
    LET dos == c.map_addr
        c1 == [c EXCEPT !.pe.dos_hdr = dos]
        e_magic == ReadLE(dos, 2)
        l1 == <<Rd(dos, 2)>>
    IN IF e_magic # MAGIC_MZ
       THEN Out(c1, "LIBPE_E_NOT_A_PE_FILE", l1, <<>>, <<>>)
       ELSE
       LET e_lfanew == ReadLE(dos + OFS_e_lfanew, 4)
           signature_ptr == LIBPE_PTR_ADD(dos, e_lfanew)
           oks == pe_can_read(c1, signature_ptr, SIZEOF_SIGNATURE)
           l2 == l1 \o <<Rd(dos + OFS_e_lfanew, 4),
                         Ck(signature_ptr, SIZEOF_SIGNATURE, oks)>>
       IN IF ~oks
          THEN Out(c1, "LIBPE_E_INVALID_LFANEW", l2, <<>>, <<>>)
          ELSE
          LET c2 == [c1 EXCEPT !.pe.signature = ReadLE(signature_ptr, SIZEOF_SIGNATURE)]
              l3 == Append(l2, Rd(signature_ptr, SIZEOF_SIGNATURE))
          IN IF c2.pe.signature \notin {SIGNATURE_NE, SIGNATURE_PE}
             THEN Out(c2, "LIBPE_E_INVALID_SIGNATURE", l3, <<>>, <<>>)
             ELSE
             LET coff == LIBPE_PTR_ADD(signature_ptr, SIZEOF_SIGNATURE)
                 c3 == [c2 EXCEPT !.pe.coff_hdr = coff]
                 okc == pe_can_read(c3, coff, SIZEOF_COFF_HEADER)
                 l4 == Append(l3, Ck(coff, SIZEOF_COFF_HEADER, okc))
             IN IF ~okc
                THEN Out(c3, "LIBPE_E_MISSING_COFF_HEADER", l4, <<>>, <<>>)
                ELSE pe_parse_optional(
                    [c3 EXCEPT !.pe.num_sections =
                        ReadLE(coff + OFS_NumberOfSections, 2)],
                    signature_ptr,
                    Append(l4, Rd(coff + OFS_NumberOfSections, 2)),
                    mdir, msec)

pe_is_pe(c) ==
    IF c.pe.dos_hdr = NULL \/ ReadLE(c.pe.dos_hdr, 2) # MAGIC_MZ
    THEN FALSE
    ELSE IF c.pe.signature # SIGNATURE_PE
    THEN FALSE
    ELSE TRUE

\* ------------------------------------------------------------ lifecycle
HasOption(options, flag) == (options \div flag) % 2 = 1

\* What pe_load_file_ext leaves: the context, the return value, the OS
\* resources and whether the strdup'ed path is allocated.
LoadOut(c, ret, fd, map, stream, tail) ==
    [ctx |-> c, ret |-> ret,
     os |-> [fd |-> fd, map |-> map, stream |-> stream, tail |-> tail]]

\* pe_load_file_ext(ctx, path, options).  fail names the first call the
\* environment makes fail ("none": no call fails; "notreg": the path names no
\* regular file); tail is the byte the kernel leaves past the end of the file
\* in the mapped page; fdleft is the state close() leaves the descriptor in
\* when it fails (POSIX leaves it unspecified).
pe_load_file_ext(options, fail, tail, fdleft) ==
    IF fail = "strdup"
    THEN LoadOut(ZeroCtx, "LIBPE_E_ALLOCATION_FAILURE", "none", "none", "none", 0)
    ELSE
    LET c1 == [ZeroCtx EXCEPT !.path = PathBlock]
    IN IF fail = "open"
       THEN LoadOut(c1, "LIBPE_E_OPEN_FAILED", "none", "none", "none", 0)
       ELSE IF fail = "fstat"
       THEN LoadOut(c1, "LIBPE_E_FSTAT_FAILED", "closed", "none", "none", 0)
       ELSE IF fail = "notreg"
       THEN LoadOut(c1, "LIBPE_E_NOT_A_FILE", "closed", "none", "none", 0)
       ELSE
       LET c2 == [c1 EXCEPT !.map_size = file.size]
       IN \* mmap rejects a zero length with EINVAL.
          IF fail = "mmap" \/ c2.map_size = 0
          THEN LoadOut([c2 EXCEPT !.map_addr = MAP_FAILED],
                       "LIBPE_E_MMAP_FAILED", "closed", "none", "none", 0)
          ELSE
          LET c3 == [c2 EXCEPT !.map_addr = MapBase,
                               !.map_end = LIBPE_PTR_ADD(MapBase, c2.map_size)]
          IN IF HasOption(options, OPT_NOCLOSE_FD)
             THEN IF fail = "fdopen"
                  THEN LoadOut(c3, "LIBPE_E_FDOPEN_FAILED",
                               "open", "mapped", "none", tail)
                  ELSE LoadOut([c3 EXCEPT !.stream = StreamBlock], "LIBPE_E_OK",
                               "open", "mapped", "open", tail)
             ELSE IF fail = "close"
                  THEN LoadOut(c3, "LIBPE_E_CLOSE_FAILED",
                               fdleft, "mapped", "none", tail)
                  ELSE LoadOut(c3, "LIBPE_E_OK", "closed", "mapped", "none", tail)

\* free(p) on heap h with the faults f so far: [heap, faults].
Free(hf, p) ==
    IF p = NULL THEN hf
    ELSE IF hf.heap[p].st = "live"
    THEN [hf EXCEPT !.heap[p] = [st |-> "freed", val |-> <<>>]]
    ELSE [hf EXCEPT !.faults = @ \cup {"double free"}]

\* cleanup_cached_data: the deallocator of every slot, in order.
RECURSIVE FreeSlots(_, _, _)
FreeSlots(hf, cached, i) ==
    IF i > Len(CacheSlots) THEN hf
    ELSE FreeSlots(Free(hf, cached[CacheSlots[i]]), cached, i + 1)

\* pe_unload(ctx).  munmap_ok: whether the kernel accepts the munmap of a
\* valid mapping.  Returns [ctx, ret, os, heap, faults, munmap].
pe_unload(c, munmap_ok) ==
    LET closing == c.stream # NULL
        os1 == IF closing /\ os.stream = "open"
               THEN [os EXCEPT !.stream = "closed", !.fd = "closed"]
               ELSE os
        hf0 == [heap |-> heap,
                faults |-> IF closing /\ os.stream # "open"
                           THEN faults \cup {"fclose of a closed stream"}
                           ELSE faults]
        hf1 == Free(hf0, c.path)
        hf2 == Free(hf1, c.pe.directories)
        hf3 == Free(hf2, c.pe.sections)
        hf4 == FreeSlots(hf3, c.cached_data, 1)
        c1 == [c EXCEPT !.cached_data = ZeroCache]
        \* munmap fails with EINVAL on an address that is not page aligned
        \* (MAP_FAILED) and on a zero length.
        valid == c.map_addr = MapBase /\ c.map_size > 0 /\ os.map = "mapped"
    IN IF c.map_addr # NULL /\ ~(valid /\ munmap_ok)
       THEN [ctx |-> c1, ret |-> "LIBPE_E_MUNMAP_FAILED", os |-> os1,
             heap |-> hf4.heap,
             faults |-> IF valid THEN hf4.faults
                        ELSE hf4.faults \cup {"munmap of no mapping"},
             munmap |-> IF valid THEN "failed" ELSE "invalid"]
       ELSE [ctx |-> ZeroCtx, ret |-> "LIBPE_E_OK",
             os |-> IF c.map_addr # NULL THEN [os1 EXCEPT !.map = "unmapped"] ELSE os1,
             heap |-> hf4.heap, faults |-> hf4.faults,
             munmap |-> IF c.map_addr # NULL THEN "ok" ELSE "none"]

\* ------------------------------------------------------------- actions
FailPoints == {"none", "strdup", "open", "fstat", "notreg", "mmap", "fdopen", "close"}
TailBytes == {0, 90}

Load(options, fail, tail, fdleft) ==
    /\ hist.loads = 0
    /\ LET r == pe_load_file_ext(options, fail, tail, fdleft)
       IN /\ ctx' = r.ctx
          /\ os' = r.os
          /\ heap' = IF r.ctx.path = NULL THEN heap
                     ELSE [heap EXCEPT ![PathBlock] = [st |-> "live", val |-> <<>>]]
          /\ last' = [op |-> "load", ret |-> r.ret, options |-> options,
                      munmap |-> "none"]
          /\ hist' = [hist EXCEPT !.loads = @ + 1, !.loadret = r.ret,
                                  !.unloads = 0, !.firstunload = "none"]
    /\ UNCHANGED <<file, faults, log, sect, q>>

\* pe_parse on a context pe_load_file_ext returned Ok for, before pe_unload.
Parse(mdir, msec) ==
    /\ hist.loadret = "LIBPE_E_OK"
    /\ hist.unloads = 0
    /\ hist.parses < MaxParse
    /\ LET r == pe_parse(ctx, mdir, msec)
           h1 == IF r.dirs # <<>>
                 THEN [heap EXCEPT ![mdir] = [st |-> "live", val |-> r.dirs]]
                 ELSE heap
           h2 == IF r.secs # <<>>
                 THEN [h1 EXCEPT ![msec] = [st |-> "live", val |-> r.secs]]
                 ELSE h1
       IN /\ ctx' = r.ctx
          /\ heap' = h2
          /\ log' = r.log
          /\ last' = [op |-> "parse", ret |-> r.ret, options |-> last.options,
                      munmap |-> "none"]
          /\ hist' = [hist EXCEPT !.parses = @ + 1,
                                  !.parseok = @ \/ r.ret = "LIBPE_E_OK"]
    /\ UNCHANGED <<file, os, faults, sect, q>>

\* A collaborator (imports, exports, hashes, resources) stores its payload in
\* the empty cache slot i of a parsed context.
CacheStore(i) ==
    /\ hist.parseok
    /\ hist.unloads = 0
    /\ ctx.cached_data[CacheSlots[i]] = NULL
    /\ ctx' = [ctx EXCEPT !.cached_data[CacheSlots[i]] = CacheBlock(i)]
    /\ heap' = [heap EXCEPT ![CacheBlock(i)] = [st |-> "live", val |-> <<>>]]
    /\ UNCHANGED <<file, os, faults, last, hist, log, sect, q>>

Unload(munmap_ok) ==
    /\ hist.unloads < MaxUnload
    /\ LET r == pe_unload(ctx, munmap_ok)
       IN /\ ctx' = r.ctx
          /\ os' = r.os
          /\ heap' = r.heap
          /\ faults' = r.faults
          /\ last' = [op |-> "unload", ret |-> r.ret, options |-> last.options,
                      munmap |-> r.munmap]
          /\ hist' = [hist EXCEPT !.unloads = @ + 1,
                                  !.firstunload = IF hist.unloads = 0 THEN r.ret ELSE @]
    /\ UNCHANGED <<file, log, sect, q>>

\* --------------------------------------------------- address translator
\* Every quantity of the translator (RVAs, offsets, the four fields of a
\* section header) is counted in units of 4096 bytes: the translator only
\* adds, subtracts, compares and reduces modulo 2^32, all of which commute
\* with the scaling, so the model is exact on inputs that are multiples of
\* 4096, and 2^32 is UINT32_MOD units.
\*
\* A uint64_t that has wrapped below zero is written as the negative number n
\* standing for 2^64 + n; unsigned comparison orders such values above all
\* the others.
ULe(a, b) == IF (a < 0) = (b < 0) THEN a <= b ELSE b < 0
ULt(a, b) == IF (a < 0) = (b < 0) THEN a < b ELSE b < 0

\* uint32_t + uint32_t, in uint32_t.
Add32(a, b) == (a + b) % UINT32_MOD
\* uint32_t + size_t, in size_t.
AddSizeT(a, b, wide) == IF wide THEN a + b ELSE Add32(a, b)

\* The loop of pe_rva2section from section i on: the index of the section
\* returned, 0 for NULL.
RECURSIVE rva2section_from(_, _, _, _)
rva2section_from(c, S, rva, i) ==
    IF i > c.pe.num_sections THEN 0
    ELSE LET start == S[i].VirtualAddress
             end == Add32(S[i].VirtualAddress, S[i].VirtualSize)
         IN IF ULe(start, rva) /\ ULe(rva, end)
            THEN i
            ELSE rva2section_from(c, S, rva, i + 1)

pe_rva2section(c, S, rva) ==
    IF rva = 0 \/ c.pe.sections = NULL
    THEN 0
    ELSE rva2section_from(c, S, rva, 1)

\* The loop of pe_rva2ofs from section i on, then the single-section case.
\* (pe_parse stores no NULL in sections[i], so the loop's NULL test never
\* fires.)
\* section_size is a size_t, so VirtualAddress + section_size is a sum in
\* size_t: it wraps at 2^32 where size_t has 32 bits (wide = FALSE) and cannot
\* wrap where it has 64 (wide = TRUE).
RECURSIVE rva2ofs_from(_, _, _, _, _)
rva2ofs_from(c, S, rva, i, wide) ==
    IF i > c.pe.num_sections
    THEN IF c.pe.num_sections = 1
         THEN rva - S[1].VirtualAddress + S[1].PointerToRawData
         ELSE rva
    ELSE LET section_size == IF S[i].VirtualSize = 0
                             THEN S[i].SizeOfRawData
                             ELSE S[i].VirtualSize
         IN IF ULe(S[i].VirtualAddress, rva)
                  /\ ULt(rva, AddSizeT(S[i].VirtualAddress, section_size, wide))
            THEN rva - S[i].VirtualAddress + S[i].PointerToRawData
            ELSE rva2ofs_from(c, S, rva, i + 1, wide)

pe_rva2ofs(c, S, rva, wide) ==
    IF rva = 0 THEN 0
    ELSE IF c.pe.sections = NULL THEN rva
    ELSE rva2ofs_from(c, S, rva, 1, wide)

\* ofs2rva_from with the end of the raw data taken as part of the section.
RECURSIVE ofs2rva_inclusive(_, _, _, _)
ofs2rva_inclusive(c, S, ofs, i) ==
    IF i > c.pe.num_sections THEN 0
    ELSE IF ULe(S[i].PointerToRawData, ofs)
              /\ ULe(ofs, Add32(S[i].PointerToRawData, S[i].SizeOfRawData))
         THEN ofs - S[i].PointerToRawData + S[i].VirtualAddress
         ELSE ofs2rva_inclusive(c, S, ofs, i + 1)

\* The loop of pe_ofs2rva from section i on.  PointerToRawData +
\* SizeOfRawData is a sum of two uint32_t.
RECURSIVE ofs2rva_from(_, _, _, _)
ofs2rva_from(c, S, ofs, i) ==
    IF i > c.pe.num_sections THEN 0
    ELSE IF ULe(S[i].PointerToRawData, ofs)
              /\ ULt(ofs, Add32(S[i].PointerToRawData, S[i].SizeOfRawData))
         THEN ofs - S[i].PointerToRawData + S[i].VirtualAddress
         ELSE ofs2rva_from(c, S, ofs, i + 1)

pe_ofs2rva(c, S, ofs) ==
    IF ofs = 0 \/ c.pe.sections = NULL
    THEN 0
    ELSE ofs2rva_from(c, S, ofs, 1)

\* pe_ofs2rva(ctx, pe_rva2ofs(ctx, rva)), in a build whose size_t has 64 bits
\* (wide) or 32.  The translator changes no state, so
\* a query's result does not depend on earlier queries: each behaviour makes
\* one.
RoundTrip(rva, wide) ==
    /\ q = NoQuery
    /\ LET ofs == pe_rva2ofs(ctx, sect, rva, wide)
       IN q' = [op |-> "rva2ofs", arg |-> rva, ofs |-> ofs,
                back |-> pe_ofs2rva(ctx, sect, ofs), sec |-> 0]
    /\ UNCHANGED <<file, ctx, heap, os, faults, last, hist, log, sect>>

\* pe_rva2section(ctx, rva)
FindSection(rva) ==
    /\ q = NoQuery
    /\ q' = [op |-> "rva2section", arg |-> rva, ofs |-> 0, back |-> 0,
             sec |-> pe_rva2section(ctx, sect, rva)]
    /\ UNCHANGED <<file, ctx, heap, os, faults, last, hist, log, sect>>

\* ------------------------------------------------------ section names
\* SECTION_NAME_SIZE: the size of IMAGE_SECTION_HEADER.Name.
SECTION_NAME_SIZE == 8
\* The largest out_name_size a caller passes.
MaxOutSize == 10

\* strnlen(s, n): the bytes of s before its first NUL, n when its first n
\* bytes hold none.  Strings are sequences of bytes, s[1] the first.
RECURSIVE strnlen_from(_, _, _)
strnlen_from(s, n, i) ==
    IF i > n \/ s[i] = 0 THEN i - 1 ELSE strnlen_from(s, n, i + 1)
strnlen(s, n) == strnlen_from(s, n, 1)

\* strncpy(dst, src, n): the bytes of src before its first NUL, at most n of
\* them, then NULs up to n bytes written; the rest of dst is left alone.
strncpy(dst, src, n) ==
    [i \in 1 .. Len(dst) |->
        IF i > n THEN dst[i]
        ELSE IF i <= strnlen(src, n) THEN src[i] ELSE 0]

\* pe_section_name(ctx, section_hdr, out_name, out_name_size): the buffer
\* after the call.  out_name[SECTION_NAME_SIZE-1] is the 8th byte, index
\* SECTION_NAME_SIZE of the sequence.
pe_section_name(section_hdr, out_name) ==
    LET copied == strncpy(out_name, section_hdr.Name, SECTION_NAME_SIZE)
    IN [copied EXCEPT ![SECTION_NAME_SIZE] = 0]

\* pe_section_name on section 1 with a buffer of out_name_size bytes, every
\* one holding fill before the call (the caller need not initialise it).
\* ndebug: the build compiles assert() out; otherwise a buffer below
\* SECTION_NAME_SIZE+1 bytes aborts the program.
SectionName(out_name_size, fill, ndebug) ==
    /\ q = NoQuery
    /\ Len(sect) > 0
    /\ LET out_name == [i \in 1 .. out_name_size |-> fill]
       IN q' = IF ~ndebug /\ out_name_size < SECTION_NAME_SIZE + 1
               THEN [op |-> "abort", arg |-> 1, size |-> out_name_size,
                     out |-> out_name]
               ELSE [op |-> "section_name", arg |-> 1, size |-> out_name_size,
                     out |-> pe_section_name(sect[1], out_name)]
    /\ UNCHANGED <<file, ctx, heap, os, faults, last, hist, log, sect>>

\* ------------------------------------------------------ specifications
NoCall == [op |-> "init", ret |-> "LIBPE_E_OK", options |-> 0, munmap |-> "none"]
NoHist ==
    [loads |-> 0, parses |-> 0, unloads |-> 0, loadret |-> "none",
     parseok |-> FALSE, firstunload |-> "none"]
NoOs == [fd |-> "none", map |-> "none", stream |-> "none", tail |-> 0]

InitWith(files) ==
    /\ file \in files
    /\ ctx = ZeroCtx
    /\ heap = ZeroHeap
    /\ os = NoOs
    /\ faults = {}
    /\ last = NoCall
    /\ hist = NoHist
    /\ log = <<>>
    /\ sect = <<>>
    /\ q = NoQuery

\* The files of the lifecycle: a PE32 image with 16 directories and one
\* section whose tables are inside the file, a PE32+ image with neither, a
\* file that is no PE, and an empty file.
LifeFiles ==
    {MkFile(Image(MAGIC_MZ, 64, SIGNATURE_PE, 1, 224, MAGIC_PE32, 16), 352),
     MkFile(Image(MAGIC_MZ, 64, SIGNATURE_PE, 0, 240, MAGIC_PE64, 0), 200),
     MkFile(Put(EmptyData, 0, 4, 2053206131), 10),
     MkFile(EmptyData, 0)}

Init == InitWith(LifeFiles)

Next ==
    \/ \E options \in 0 .. 3, fail \in FailPoints, tail \in TailBytes,
          fdleft \in {"open", "closed"} :
          Load(options, fail, tail, fdleft)
    \/ \E mdir \in {NULL, DirBlock(hist.parses + 1)},
          msec \in {NULL, SecBlock(hist.parses + 1)} :
          Parse(mdir, msec)
    \/ \E i \in 1 .. Len(CacheSlots) : CacheStore(i)
    \/ \E munmap_ok \in BOOLEAN : Unload(munmap_ok)

Spec == Init /\ [][Next]_vars

\* The files of the parser: every image of the family below, cut at every
\* size of Sizes.
Lfanews == {4, 64, 2130706432}
Sizes == {1, 2, 8, 28, 30, 64, 68, 88, 90, 124, 140, 184, 200, 312, 352}
ParseFiles ==
    {MkFile(Image(MAGIC_MZ, lf, sig, ns, osz, om, nd), size) :
        lf \in Lfanews,
        sig \in {SIGNATURE_PE, SIGNATURE_NE, 17745},
        ns \in {0, 1, MAX_SECTIONS, MAX_SECTIONS + 1},
        osz \in {0, 224},
        om \in {MAGIC_PE32, MAGIC_PE64, MAGIC_ROM},
        nd \in {0, MAX_DIRECTORIES, MAX_DIRECTORIES + 1},
        size \in Sizes}
    \cup {MkFile(Image(19802, 64, SIGNATURE_PE, 1, 224, MAGIC_PE32,
                       MAX_DIRECTORIES), size) : size \in Sizes}

InitParse == InitWith(ParseFiles)

NextParse ==
    \/ \E tail \in TailBytes : Load(0, "none", tail, "closed")
    \/ \E mdir \in {NULL, DirBlock(hist.parses + 1)},
          msec \in {NULL, SecBlock(hist.parses + 1)} :
          Parse(mdir, msec)

SpecParse == InitParse /\ [][NextParse]_vars

\* The section tables of the translator, in units of 4096 bytes.
SectionHeaders ==
    [VirtualAddress : {0, 1, UINT32_MOD - 1}, VirtualSize : {0, 1, 2},
     PointerToRawData : {0, 1, UINT32_MOD - 1}, SizeOfRawData : {0, 2}]
SectionTables == UNION {[1 .. n -> SectionHeaders] : n \in 0 .. MaxSec}
RvaVals == {0, 1, 2, UINT32_MOD - 1, UINT32_MOD, UINT32_MOD + 1}

\* A context after pe_load_file_ext and pe_parse returned Ok on a one-page
\* image whose section table is S.
ParsedCtx(S) ==
    [ZeroCtx EXCEPT
        !.path = PathBlock, !.map_addr = MapBase, !.map_size = PAGE_SIZE,
        !.map_end = MapBase + PAGE_SIZE,
        !.pe.dos_hdr = MapBase, !.pe.signature = SIGNATURE_PE,
        !.pe.num_sections = Len(S),
        !.pe.sections = IF Len(S) > 0 THEN SecBlock(1) ELSE NULL]

InitAddr ==
    /\ sect \in SectionTables
    /\ ctx = ParsedCtx(sect)
    /\ file = MkFile(EmptyData, PAGE_SIZE)
    /\ heap = [ZeroHeap EXCEPT
                  ![PathBlock] = [st |-> "live", val |-> <<>>],
                  ![SecBlock(1)] = IF Len(sect) > 0
                                   THEN [st |-> "live", val |-> <<>>]
                                   ELSE @]
    /\ os = [fd |-> "closed", map |-> "mapped", stream |-> "none", tail |-> 0]
    /\ faults = {}
    /\ last = [op |-> "parse", ret |-> "LIBPE_E_OK", options |-> 0, munmap |-> "none"]
    /\ hist = [NoHist EXCEPT !.loads = 1, !.parses = 1, !.loadret = "LIBPE_E_OK",
                             !.parseok = TRUE]
    /\ log = <<>>
    /\ q = NoQuery

NextAddr ==
    \/ \E rva \in RvaVals, wide \in BOOLEAN : RoundTrip(rva, wide)
    \/ \E rva \in RvaVals : FindSection(rva)

SpecAddr == InitAddr /\ [][NextAddr]_vars

\* Section names: every 8-byte Name field over NUL, 'A' and 'B'.
NameBytes == {0, 65, 66}
SectionNames == [1 .. SECTION_NAME_SIZE -> NameBytes]
NamedHeader(name) ==
    [Name |-> name, VirtualAddress |-> 0, VirtualSize |-> 0,
     PointerToRawData |-> 0, SizeOfRawData |-> 0]

\* A parsed context whose one section header carries any of the names.
InitName ==
    /\ sect \in {<<NamedHeader(name)>> : name \in SectionNames}
    /\ ctx = ParsedCtx(sect)
    /\ file = MkFile(EmptyData, PAGE_SIZE)
    /\ heap = [ZeroHeap EXCEPT
                  ![PathBlock] = [st |-> "live", val |-> <<>>],
                  ![SecBlock(1)] = [st |-> "live", val |-> <<>>]]
    /\ os = [fd |-> "closed", map |-> "mapped", stream |-> "none", tail |-> 0]
    /\ faults = {}
    /\ last = [op |-> "parse", ret |-> "LIBPE_E_OK", options |-> 0, munmap |-> "none"]
    /\ hist = [NoHist EXCEPT !.loads = 1, !.parses = 1, !.loadret = "LIBPE_E_OK",
                             !.parseok = TRUE]
    /\ log = <<>>
    /\ q = NoQuery

NextName ==
    \E out_name_size \in SECTION_NAME_SIZE .. MaxOutSize,
       fill \in {0, 88}, ndebug \in BOOLEAN :
        SectionName(out_name_size, fill, ndebug)

SpecName == InitName /\ [][NextName]_vars

\* -------------------------------------------------------------- claims
MinOf(I) == CHOOSE x \in I : \A y \in I : x <= y

\* contains(p, s): [p, p + s) lies inside the mapping [base, base + size).
InsideMapping(p, s) ==
    ctx.map_addr <= p /\ p + s <= ctx.map_addr + ctx.map_size

ParsedOk == last.op = "parse" /\ last.ret = "LIBPE_E_OK"

\* C1: after pe_parse returns Ok, every pointer of the parsed index lies in
\* the mapping together with its structure: the DOS header, the COFF header,
\* the optional header, every directories[i] and every sections[i].
C1_ParsedPointersInsideMapping ==
    ParsedOk =>
        /\ InsideMapping(ctx.pe.dos_hdr, SIZEOF_DOS_HEADER)
        /\ InsideMapping(ctx.pe.coff_hdr, SIZEOF_COFF_HEADER)
        /\ InsideMapping(ctx.pe.optional_hdr_ptr, ctx.pe.optional_hdr.length)
        /\ \A i \in 1 .. ctx.pe.num_directories :
              InsideMapping(heap[ctx.pe.directories].val[i], SIZEOF_DATA_DIRECTORY)
        /\ \A i \in 1 .. ctx.pe.num_sections :
              InsideMapping(heap[ctx.pe.sections].val[i], SIZEOF_SECTION_HEADER)

\* The part of C1 the code keeps: the three headers are inside the mapping.
C1_HeadersInsideMapping ==
    ParsedOk =>
        /\ InsideMapping(ctx.pe.dos_hdr, SIZEOF_DOS_HEADER)
        /\ InsideMapping(ctx.pe.coff_hdr, SIZEOF_COFF_HEADER)
        /\ InsideMapping(ctx.pe.optional_hdr_ptr, ctx.pe.optional_hdr.length)

\* C2: every read of pe_parse through the mapping comes after a bounds check
\* that succeeded on a range holding the bytes read, so that no read touches
\* an offset at or past the file size.
C2_EveryReadIsBoundsChecked ==
    \A i \in 1 .. Len(log) :
        log[i].k = "read" =>
            /\ \E j \in 1 .. i - 1 :
                  /\ log[j].k = "check" /\ log[j].ok
                  /\ log[j].p <= log[i].p
                  /\ log[i].p + log[i].n <= log[j].p + log[j].n
            /\ log[i].p - ctx.map_addr + log[i].n <= file.size

\* The list of pe_parse's checks in the order of the claim, on the bytes the
\* mapping shows at each file offset.
ByteAt(o) ==
    IF o < file.size
    THEN (IF o \in DOMAIN file.data THEN file.data[o] ELSE 0)
    ELSE os.tail
Field16(o) == ByteAt(o) + 256 * ByteAt(o + 1)
Field32(o) == Field16(o) + 65536 * Field16(o + 2)
WhollyInside(o, n) == o + n <= file.size
HdrLfanew == Field32(OFS_e_lfanew)
HdrCoff == HdrLfanew + SIZEOF_SIGNATURE
HdrOpt == HdrCoff + SIZEOF_COFF_HEADER
HdrOptMagic == Field16(HdrOpt)
HdrNumberOfSections == Field16(HdrCoff + OFS_NumberOfSections)
HdrNumberOfRvaAndSizes ==
    IF HdrOptMagic = MAGIC_PE32
    THEN Field32(HdrOpt + OFS_NumberOfRvaAndSizes_32)
    ELSE Field32(HdrOpt + OFS_NumberOfRvaAndSizes_64)
ParseChecks ==
    << <<Field16(0) # MAGIC_MZ, "LIBPE_E_NOT_A_PE_FILE">>,
       <<~WhollyInside(HdrLfanew, SIZEOF_SIGNATURE), "LIBPE_E_INVALID_LFANEW">>,
       <<Field32(HdrLfanew) \notin {SIGNATURE_PE, SIGNATURE_NE},
         "LIBPE_E_INVALID_SIGNATURE">>,
       <<~WhollyInside(HdrCoff, SIZEOF_COFF_HEADER), "LIBPE_E_MISSING_COFF_HEADER">>,
       <<\/ ~WhollyInside(HdrOpt, SIZEOF_OPT_TYPE)
         \/ HdrOptMagic = MAGIC_PE32
               /\ ~WhollyInside(HdrOpt, SIZEOF_OPTIONAL_HEADER_32)
         \/ HdrOptMagic = MAGIC_PE64
               /\ ~WhollyInside(HdrOpt, SIZEOF_OPTIONAL_HEADER_64),
         "LIBPE_E_MISSING_OPTIONAL_HEADER">>,
       <<HdrOptMagic \notin {MAGIC_PE32, MAGIC_PE64}, "LIBPE_E_UNSUPPORTED_IMAGE">>,
       <<HdrNumberOfRvaAndSizes > MAX_DIRECTORIES, "LIBPE_E_TOO_MANY_DIRECTORIES">>,
       <<HdrNumberOfSections > MAX_SECTIONS, "LIBPE_E_TOO_MANY_SECTIONS">> >>
FailingChecks == {i \in 1 .. Len(ParseChecks) : ParseChecks[i][1]}
FirstFailure ==
    IF FailingChecks = {} THEN "none" ELSE ParseChecks[MinOf(FailingChecks)][2]

\* C3: pe_parse returns the error of the first failing check of the fixed
\* order, returns Ok only when no check fails, and on Ok the two counts are
\* the header fields, at most 96 and 16.
C3_FirstFailingCheckDecides ==
    last.op = "parse" =>
        /\ FirstFailure # "none" => last.ret = FirstFailure
        /\ last.ret = "LIBPE_E_OK" =>
              /\ FirstFailure = "none"
              /\ ctx.pe.num_sections = HdrNumberOfSections
              /\ ctx.pe.num_directories = HdrNumberOfRvaAndSizes
              /\ ctx.pe.num_sections <= MAX_SECTIONS
              /\ ctx.pe.num_directories <= MAX_DIRECTORIES

\* Witness of C3: a parse that passed every check but the last one.
C3_Witness ==
    /\ last.op = "parse"
    /\ last.ret = "LIBPE_E_TOO_MANY_SECTIONS"
    /\ FirstFailure = "LIBPE_E_TOO_MANY_SECTIONS"
    /\ HdrNumberOfSections = MAX_SECTIONS + 1

\* C9: for an MZ file whose in-bounds signature is NE\0\0, pe_parse stops at
\* the signature: it neither checks nor reads anything that follows it,
\* records no COFF, optional, directory or section data, returns Ok, and
\* pe_is_pe is false.
C9_NESignatureStopsParsing ==
    (last.op = "parse" /\ ctx.pe.signature = SIGNATURE_NE) =>
        /\ \A i \in 1 .. Len(log) :
              log[i].p < ctx.map_addr + HdrLfanew + SIZEOF_SIGNATURE
        /\ last.ret = "LIBPE_E_OK"
        /\ ctx.pe.coff_hdr = NULL
        /\ ctx.pe.optional_hdr_ptr = NULL
        /\ ctx.pe.num_sections = 0
        /\ ctx.pe.num_directories = 0
        /\ ctx.pe.directories = NULL
        /\ ctx.pe.sections = NULL
        /\ ~pe_is_pe(ctx)

\* The part of C9 the code keeps: pe_is_pe is false on an NE file.
C9_NEIsNotPE ==
    (last.op = "parse" /\ ctx.pe.signature = SIGNATURE_NE) => ~pe_is_pe(ctx)

\* C4: when pe_load_file_ext fails after open() succeeded, the descriptor is
\* closed and no mapping is left mapped.
C4_FailedLoadReleasesDescriptorAndMapping ==
    (last.op = "load"
        /\ last.ret \in {"LIBPE_E_FSTAT_FAILED", "LIBPE_E_NOT_A_FILE",
                         "LIBPE_E_MMAP_FAILED", "LIBPE_E_FDOPEN_FAILED",
                         "LIBPE_E_CLOSE_FAILED"})
    => (os.fd = "closed" /\ os.map # "mapped")

\* Every resource the context owns is released.
AllReleased ==
    /\ \A b \in Blocks : heap[b].st # "live"
    /\ os.fd # "open"
    /\ os.map # "mapped"
    /\ os.stream # "open"

\* C5: when munmap fails in pe_unload, pe_unload returns MunmapFailed with
\* every other teardown step done and the context zeroed, and a further
\* pe_unload frees nothing a second time.
C5_MunmapFailureStillTearsDown ==
    /\ (last.op = "unload" /\ last.munmap = "failed") =>
          /\ last.ret = "LIBPE_E_MUNMAP_FAILED"
          /\ os.stream # "open"
          /\ \A b \in Blocks : heap[b].st # "live"
          /\ ctx = ZeroCtx
    /\ (hist.loadret = "LIBPE_E_OK" /\ hist.firstunload = "LIBPE_E_MUNMAP_FAILED") =>
          faults = {}

\* C6: after pe_load_file_ext returned an error, pe_is_loaded is false, and
\* the following pe_unload (the kernel refusing no valid munmap) returns Ok,
\* releases the path and the mapping if there is one, hands munmap no address
\* that mmap did not return, and leaves the context zeroed.
C6_UnloadAfterFailedLoad ==
    (hist.loads = 1 /\ hist.loadret # "LIBPE_E_OK") =>
        /\ last.op = "load" => ~pe_is_loaded(ctx)
        /\ (last.op = "unload" /\ hist.unloads = 1 /\ last.munmap # "failed") =>
              /\ last.munmap # "invalid"
              /\ last.ret = "LIBPE_E_OK"
              /\ ctx = ZeroCtx
              /\ heap[PathBlock].st # "live"
              /\ os.map # "mapped"

\* C7: after a successful load, any number of pe_parse calls and a pe_unload
\* whose munmap succeeds, pe_unload has returned Ok, every resource acquired
\* is released, none twice, and the context is zeroed; a further pe_unload
\* returns Ok and changes nothing.
C7_LoadParseUnloadReleasesAll ==
    (hist.loadret = "LIBPE_E_OK" /\ last.op = "unload"
        /\ hist.firstunload = "LIBPE_E_OK")
    => /\ last.ret = "LIBPE_E_OK"
       /\ ctx = ZeroCtx
       /\ AllReleased
       /\ faults = {}

\* The section the claim expects of pe_rva2section: the first in declared
\* order with VirtualAddress <= rva <= VirtualAddress + VirtualSize, the sum
\* being the integer sum; 0 for none.
ExpectedSection(rva) ==
    LET I == {i \in 1 .. Len(sect) :
                 /\ sect[i].VirtualAddress <= rva
                 /\ rva <= sect[i].VirtualAddress + sect[i].VirtualSize}
    IN IF rva = 0 \/ Len(sect) = 0 \/ I = {} THEN 0 ELSE MinOf(I)

\* C10: pe_rva2section(rva) is the first section with VirtualAddress <= rva
\* <= VirtualAddress + VirtualSize (true integer sum), and none when rva is 0,
\* there is no section table or no section satisfies it.
C10_Rva2SectionFirstInclusiveMatch ==
    q.op = "rva2section" => q.sec = ExpectedSection(q.arg)

\* r lies in section i, which has a non-zero VirtualSize, below the end of
\* its raw data.
InRawCoveredPart(i, r) ==
    /\ sect[i].VirtualSize > 0
    /\ sect[i].VirtualAddress <= r
    /\ r < sect[i].VirtualAddress + sect[i].VirtualSize
    /\ r < sect[i].VirtualAddress + sect[i].SizeOfRawData

InVirtualRange(j, r) ==
    /\ sect[j].VirtualAddress <= r
    /\ r < sect[j].VirtualAddress
             + (IF sect[j].VirtualSize = 0 THEN sect[j].SizeOfRawData
                ELSE sect[j].VirtualSize)
InRawRange(j, o) ==
    /\ sect[j].PointerToRawData <= o
    /\ o < sect[j].PointerToRawData + sect[j].SizeOfRawData

\* Section i is the only one whose virtual range holds r and whose raw range
\* holds the offset of r, that offset is not 0, and the ends of i's virtual
\* range and of its raw data fit 32 bits.
RoundTripCase(i, r) ==
    LET o == r - sect[i].VirtualAddress + sect[i].PointerToRawData
    IN /\ InRawCoveredPart(i, r)
       /\ o # 0
       /\ sect[i].VirtualAddress + sect[i].VirtualSize < UINT32_MOD
       /\ sect[i].PointerToRawData + sect[i].SizeOfRawData < UINT32_MOD
       /\ \A j \in 1 .. Len(sect) :
             j # i => ~InVirtualRange(j, r) /\ ~InRawRange(j, o)

Terminated(buf) == \E i \in 1 .. Len(buf) : buf[i] = 0
CString(buf) == SubSeq(buf, 1, strnlen(buf, Len(buf)))
\* The name a Name field spells: its bytes before the first NUL, all 8 when
\* it holds none.
FieldName(name) == SubSeq(name, 1, strnlen(name, SECTION_NAME_SIZE))

\* C11: with a buffer of at least 9 bytes, pe_section_name leaves a
\* NUL-terminated string in it that equals the section's Name field up to its
\* first NUL, or all 8 bytes when the field has no NUL.
C11_SectionNameKeepsAllBytes ==
    (q.op = "section_name" /\ q.size >= SECTION_NAME_SIZE + 1) =>
        /\ Terminated(q.out)
        /\ CString(q.out) = FieldName(sect[1].Name)

\* The part of C11 the code keeps: the string is terminated inside the buffer
\* and holds the first 7 bytes of the name at most.
C11_FirstSevenBytes ==
    (q.op = "section_name" /\ q.size >= SECTION_NAME_SIZE + 1) =>
        /\ Terminated(q.out)
        /\ LET name == FieldName(sect[1].Name)
           IN CString(q.out)
                = SubSeq(name, 1, IF Len(name) < SECTION_NAME_SIZE
                                  THEN Len(name) ELSE SECTION_NAME_SIZE - 1)

====
